---- MODULE Spec2Model ----
(***************************************************************************)
(* Model of the typed query compiler of src/src/MockDatabase/MockDatabase.ts: *)
(* the Model class (lines 479-971) with its MockDatabase registry.          *)
(*                                                                          *)
(* Representation.                                                          *)
(*   - A JavaScript value is a record [kind, text, entries]: kind is the    *)
(*     typeof-like tag, text the characters String(value) yields for a      *)
(*     scalar, entries the ordered <<key, value>> pairs of an object        *)
(*     (Object.entries order).                                              *)
(*   - A SQL fragment is a sequence of string tokens; sql`` is <<>>.        *)
(*   - An operation that can throw returns [err, ...]; err = "" is the      *)
(*     normal return.                                                       *)
(*                                                                          *)
(* Specifications.                                                          *)
(*   - Spec: one caller makes one call of the facade, with arguments from   *)
(*     the full sets of query descriptions.                                 *)
(*   - ConcurrentSpec: every caller makes a call, the calls interleaving at *)
(*     the await of their submissions.                                      *)
(*   - RowSpec: formatRow alone, applied to a drawn flat row and then to    *)
(*     its own output.                                                      *)
(***************************************************************************)
EXTENDS Integers, Sequences, FiniteSets

VARIABLES
    database,   \* the MockDatabase registry: table name -> columns
    pc,         \* per caller: "idle", "awaiting", "returned", "threw"; "off" for a
                \* caller that makes no call, "reshaping" in RowSpec
    call,       \* per caller: the facade operation invoked and its arguments
    stmt,       \* per caller: the fragments compiled for the call and the statement
    submitted,  \* per caller: the statements handed to the executor, in order
    answered,   \* per caller: what the executor answered, in order
    result      \* per caller: what the call returned or threw

vars == <<database, pc, call, stmt, submitted, answered, result>>

(***************************************************************************)
(* Bounds of the model.                                                    *)
(***************************************************************************)
MaxKeys == 2        \* entries of a flat filter / order description
MaxRows == 2        \* rows the executor returns
NumCallers == 2     \* facade calls that can be in flight

Callers == 1..NumCallers

(***************************************************************************)
(* JavaScript values.                                                      *)
(***************************************************************************)
Undefined == [kind |-> "undefined", text |-> "", entries |-> <<>>]
Null == [kind |-> "null", text |-> "", entries |-> <<>>]
Num(t) == [kind |-> "number", text |-> t, entries |-> <<>>]
Str(t) == [kind |-> "string", text |-> t, entries |-> <<>>]
Bool(t) == [kind |-> "boolean", text |-> t, entries |-> <<>>]
Obj(es) == [kind |-> "object", text |-> "", entries |-> es]

\* String(value) and template interpolation `${value}`
String(v) ==
    CASE v.kind = "undefined" -> "undefined"
      [] v.kind = "null" -> "null"
      [] v.kind = "object" -> "[object Object]"
      [] OTHER -> v.text

\* operators && typeof operators === "object"
IsObject(v) == v.kind = "object"

\* Object.keys / Object.entries helpers over ordered entries
Keys(es) == [i \in 1..Len(es) |-> es[i][1]]
HasKey(es, k) == \E i \in 1..Len(es) : es[i][1] = k
Get(es, k) == es[CHOOSE i \in 1..Len(es) : es[i][1] = k][2]
Range(s) == {s[i] : i \in 1..Len(s)}

RECURSIVE Flatten(_)
\* a fragment array interpolated into a template: fragments in order
Flatten(frs) == IF frs = <<>> THEN <<>> ELSE Head(frs) \o Flatten(Tail(frs))

(***************************************************************************)
(* Schema registry.                                                        *)
(***************************************************************************)
NoReference == [tableName |-> "", columnName |-> ""]
Ref(t, c) == [tableName |-> t, columnName |-> c]
Column(n, r) == [name |-> n, reference |-> r]
NoColumn == Column("", NoReference)

\* the registry the facade is constructed with (post_/user_ of design.txt,
\* extended with an avatar relation and a reference to a table that was
\* never registered)
Schema ==
    [t \in {"post_", "user_", "avatar_"} |->
        CASE t = "post_" ->
                <<Column("id", NoReference), Column("title", NoReference),
                  Column("author_id", Ref("user_", "id")),
                  Column("ghost_id", Ref("ghost_", "id"))>>
          [] t = "user_" ->
                <<Column("id", NoReference), Column("username", NoReference),
                  Column("avatar_id", Ref("avatar_", "id"))>>
          [] t = "avatar_" ->
                <<Column("id", NoReference), Column("src", NoReference)>>]

\* MockDatabase.getTable: assert(table, ...)
getTable(db, tableName) ==
    IF tableName \in DOMAIN db
    THEN [err |-> "", columns |-> db[tableName]]
    ELSE [err |-> "UnknownTable", columns |-> <<>>]

\* MockTable.getColumn: the column of that name, or undefined
getColumn(columns, columnName) ==
    IF \E i \in 1..Len(columns) : columns[i].name = columnName
    THEN columns[CHOOSE i \in 1..Len(columns) : columns[i].name = columnName]
    ELSE NoColumn

\* Model.findReference: throws unless the column exists and has a reference
findReference(db, columnName, parentTable) ==
    LET table == getTable(db, parentTable)
        column == getColumn(table.columns, columnName)
    IN  IF table.err # "" THEN [err |-> table.err, column |-> NoColumn]
        ELSE IF column = NoColumn THEN [err |-> "UnknownColumn", column |-> NoColumn]
        ELSE IF column.reference = NoReference
             THEN [err |-> "NotAReference", column |-> NoColumn]
        ELSE [err |-> "", column |-> column]

(***************************************************************************)
(* Fragment utilities.                                                     *)
(***************************************************************************)
\* Model.createIdentifier: sql(`${parentTable}.${column}`)
createIdentifier(column, parentTable) == parentTable \o "." \o column

\* Model.joinByFragment
joinByFragment(fragments, joinBy) ==
    IF Len(fragments) = 0 THEN <<>>
    ELSE Flatten([i \in 1..Len(fragments) |->
            fragments[i] \o (IF i # Len(fragments) THEN joinBy ELSE <<>>)])

\* Model.clearFragmentArray
clearFragmentArray(fragment) == IF Len(fragment) = 0 THEN <<>> ELSE Flatten(fragment)

(***************************************************************************)
(* Predicate compiler (WHERE).                                             *)
(***************************************************************************)
Quoted(v) == "'" \o String(v) \o "'"

\* the switch over the first entry of an operator map; <<>> when no case
\* matches and control falls out of the switch
operatorClause(selector, operator, targetValue) ==
    CASE operator = "eq" ->
            IF targetValue.kind = "null" THEN <<selector, "IS NULL">>
            ELSE <<selector, "=", Quoted(targetValue)>>
      [] operator = "neq" ->
            IF targetValue.kind = "null" THEN <<selector, "IS NOT NULL">>
            ELSE <<selector, "!=", Quoted(targetValue)>>
      [] operator = "contains" ->
            <<selector, "LIKE", "'%" \o String(targetValue) \o "%'">>
      [] operator = "startsWith" ->
            <<selector, "LIKE", "'" \o String(targetValue) \o "%'">>
      [] operator = "endsWith" ->
            <<selector, "LIKE", "'%" \o String(targetValue) \o "'">>
      [] operator = "gt" -> <<selector, ">", String(targetValue)>>
      [] operator = "lt" -> <<selector, "<", String(targetValue)>>
      [] operator = "gte" -> <<selector, ">=", String(targetValue)>>
      [] operator = "lte" -> <<selector, ">=", String(targetValue)>>
      [] OTHER -> <<>>

\* first error of a sequence of [err, ...] results, "" when none threw
FirstErr(rs) ==
    IF \E i \in 1..Len(rs) : rs[i].err # ""
    THEN rs[CHOOSE i \in 1..Len(rs) :
                rs[i].err # "" /\ \A j \in 1..(i - 1) : rs[j].err = ""].err
    ELSE ""

RECURSIVE generateWhere(_, _, _, _)
RECURSIVE generateWhereObject(_, _, _, _)

\* Model.generateWhereObject(key, operators, parentTable)
generateWhereObject(db, key, operators, parentTable) ==
    LET selector == createIdentifier(key, parentTable)
        fallthrough == [err |-> "", frag |-> <<selector, "=", String(operators)>>]
    IN  IF operators.kind = "null" THEN [err |-> "", frag |-> <<selector, "IS NULL">>]
        ELSE IF IsObject(operators) THEN
            LET found == findReference(db, key, parentTable)   \* try/catch: error dropped
            IN  IF found.err = "" THEN
                    generateWhere(db, operators.entries,
                                  found.column.reference.tableName, FALSE)
                ELSE IF operators.entries = <<>> THEN
                    \* destructuring Object.entries(operators)[0] === undefined
                    [err |-> "TypeError", frag |-> <<>>]
                ELSE
                    LET clause == operatorClause(selector, operators.entries[1][1],
                                                 operators.entries[1][2])
                    IN  IF clause # <<>> THEN [err |-> "", frag |-> clause]
                        ELSE fallthrough
        ELSE fallthrough

\* generateWhere with the WHERE prefix emitted in recursive sub-compiles too
generateWhere_PrefixesNested(db, where, parentTable, includeWhere) ==
    LET results == [i \in 1..Len(where) |->
                        generateWhereObject(db, where[i][1], where[i][2], parentTable)]
        whereFragments == [i \in 1..Len(where) |-> results[i].frag]
    IN  IF FirstErr(results) # "" THEN [err |-> FirstErr(results), frag |-> <<>>]
        ELSE [err |-> "",
              frag |-> (IF Len(whereFragments) > 0 THEN <<"WHERE">> ELSE <<>>)
                       \o joinByFragment(whereFragments, <<"AND">>)]

\* Model.generateWhere({where, parentTable, includeWhere})
generateWhere(db, where, parentTable, includeWhere) ==
    LET results == [i \in 1..Len(where) |->
                        generateWhereObject(db, where[i][1], where[i][2], parentTable)]
        whereFragments == [i \in 1..Len(where) |-> results[i].frag]
    IN  IF FirstErr(results) # "" THEN [err |-> FirstErr(results), frag |-> <<>>]
        ELSE [err |-> "",
              frag |-> (IF includeWhere /\ Len(whereFragments) > 0
                        THEN <<"WHERE">> ELSE <<>>)
                       \o joinByFragment(whereFragments, <<"AND">>)]

(***************************************************************************)
(* Select compiler.                                                        *)
(***************************************************************************)
\* generateSelect joining the columns whatever their number: nothing for none
generateSelect_NoColumnsForEmptyList(select, parentTable, referenceColumnName, includeReturning, includeComma) ==
    LET columns ==
            joinByFragment(
                [i \in 1..Len(select) |->
                    <<createIdentifier(select[i], parentTable)>>
                    \o (IF referenceColumnName # ""
                        THEN <<"AS", "__" \o referenceColumnName \o "__" \o select[i]>>
                        ELSE <<>>)],
                <<",">>)
    IN  (IF includeReturning THEN <<"RETURNING">> ELSE <<>>)
        \o columns
        \o (IF includeComma THEN <<",">> ELSE <<>>)

\* Model.generateSelect({select, parentTable, referenceColumnName,
\* includeReturning, includeComma}); referenceColumnName = "" when not given
generateSelect(select, parentTable, referenceColumnName, includeReturning, includeComma) ==
    LET columns ==
            IF Len(select) > 0
            THEN joinByFragment(
                    [i \in 1..Len(select) |->
                        <<createIdentifier(select[i], parentTable)>>
                        \o (IF referenceColumnName # ""
                            THEN <<"AS", "__" \o referenceColumnName \o "__" \o select[i]>>
                            ELSE <<>>)],
                    <<",">>)
            ELSE <<parentTable \o ".*">>
    IN  (IF includeReturning THEN <<"RETURNING">> ELSE <<>>)
        \o columns
        \o (IF includeComma THEN <<",">> ELSE <<>>)

(***************************************************************************)
(* Relation resolver (INCLUDE).                                            *)
(***************************************************************************)
\* includeEntry with the lookup failure dropped, as the predicate compiler
\* drops it: the key is skipped
includeEntry_SwallowsLookup(db, tableName, columnName, select) ==
    LET found == findReference(db, columnName, tableName)
        column == found.column
    IN  IF found.err # "" THEN [err |-> "", join |-> <<>>, selects |-> <<>>]
        ELSE [err |-> "",
              join |-> <<"JOIN", column.reference.tableName, "ON",
                         createIdentifier(column.name, tableName), "=",
                         createIdentifier(column.reference.columnName,
                                          column.reference.tableName)>>,
              selects |-> IF select.kind # "boolean"
                          THEN <<generateSelect(Keys(select.entries),
                                                column.reference.tableName,
                                                columnName, FALSE, FALSE)>>
                          ELSE <<>>]

\* includeEntry with the referenced column qualified by the default parent
\* table of createIdentifier, the owner
includeEntry_JoinsOnOwner(db, tableName, columnName, select) ==
    LET found == findReference(db, columnName, tableName)
        column == found.column
    IN  IF found.err # "" THEN [err |-> found.err, join |-> <<>>, selects |-> <<>>]
        ELSE [err |-> "",
              join |-> <<"JOIN", column.reference.tableName, "ON",
                         createIdentifier(column.name, tableName), "=",
                         createIdentifier(column.reference.columnName, tableName)>>,
              selects |-> IF select.kind # "boolean"
                          THEN <<generateSelect(Keys(select.entries),
                                                column.reference.tableName,
                                                columnName, FALSE, FALSE)>>
                          ELSE <<>>]

\* one iteration of the loop of Model.generateInclude
includeEntry(db, tableName, columnName, select) ==
    LET found == findReference(db, columnName, tableName)
        column == found.column
    IN  IF found.err # "" THEN [err |-> found.err, join |-> <<>>, selects |-> <<>>]
        ELSE [err |-> "",
              join |-> <<"JOIN", column.reference.tableName, "ON",
                         createIdentifier(column.name, tableName), "=",
                         createIdentifier(column.reference.columnName,
                                          column.reference.tableName)>>,
              selects |-> IF select.kind # "boolean"
                          THEN <<generateSelect(Keys(select.entries),
                                                column.reference.tableName,
                                                columnName, FALSE, FALSE)>>
                          ELSE <<>>]

\* Model.generateInclude(include)
generateInclude(db, tableName, include) ==
    LET results == [i \in 1..Len(include) |->
                        includeEntry(db, tableName, include[i][1], include[i][2])]
    IN  IF FirstErr(results) # ""
        THEN [err |-> FirstErr(results), joinFragment |-> <<>>, selectFragment |-> <<>>]
        ELSE [err |-> "",
              joinFragment |-> [i \in 1..Len(include) |-> results[i].join],
              selectFragment |-> Flatten([i \in 1..Len(include) |-> results[i].selects])]

(***************************************************************************)
(* Order compiler (ORDER BY).                                              *)
(***************************************************************************)
\* Object.entries(order): the entries of an object, the indexed characters
\* of a string, nothing for any other value
ObjectEntries(v) ==
    CASE v.kind = "object" -> v.entries
      [] v.kind = "string" /\ v.text = "ASC" ->
            <<<<"0", Str("A")>>, <<"1", Str("S")>>, <<"2", Str("C")>>>>
      [] v.kind = "string" /\ v.text = "DESC" ->
            <<<<"0", Str("D")>>, <<"1", Str("E")>>, <<"2", Str("S")>>, <<"3", Str("C")>>>>
      [] OTHER -> <<>>

RECURSIVE generateOrderByObject(_, _, _, _)
\* Model.generateOrderByObject({orderBy, parentTable}); the relationship lookup
\* is findReference(columnName), whose parentTable defaults to this.tableName
generateOrderByObject(db, tableName, orderBy, parentTable) ==
    LET perKey == [i \in 1..Len(orderBy) |->
            LET columnName == orderBy[i][1]
                order == orderBy[i][2]
                own == <<createIdentifier(columnName, parentTable)>>
                found == findReference(db, columnName, tableName)
                fragments == IF found.err = ""
                             THEN generateOrderByObject(db, tableName, ObjectEntries(order),
                                        found.column.reference.tableName)
                             ELSE [ascFragment |-> <<>>, descFragment |-> <<>>]
            IN  [ascFragment |->
                    (IF order = Str("ASC") THEN <<own>> ELSE <<>>) \o fragments.ascFragment,
                 descFragment |->
                    (IF order = Str("DESC") THEN <<own>> ELSE <<>>) \o fragments.descFragment]]
    IN  [ascFragment |-> Flatten([i \in 1..Len(orderBy) |-> perKey[i].ascFragment]),
         descFragment |-> Flatten([i \in 1..Len(orderBy) |-> perKey[i].descFragment])]

\* orderByClause without the separator between the two groups
orderByClause_NoSeparator(ascFragment, descFragment) ==
    LET hasAsc == Len(ascFragment) > 0
        hasDesc == Len(descFragment) > 0
    IN  IF ~hasAsc /\ ~hasDesc THEN <<>>
        ELSE <<"ORDER BY">>
             \o (IF hasAsc
                 THEN joinByFragment(ascFragment, <<",">>) \o <<"ASC">>
                 ELSE <<>>)
             \o (IF hasDesc
                 THEN joinByFragment(descFragment, <<",">>) \o <<"DESC">>
                 ELSE <<>>)

\* the template of Model.generateOrderBy over the two groups
orderByClause(ascFragment, descFragment) ==
    LET hasAsc == Len(ascFragment) > 0
        hasDesc == Len(descFragment) > 0
    IN  IF ~hasAsc /\ ~hasDesc THEN <<>>
        ELSE <<"ORDER BY">>
             \o (IF hasAsc
                 THEN joinByFragment(ascFragment, <<",">>) \o <<"ASC">>
                      \o (IF hasDesc THEN <<",">> ELSE <<>>)
                 ELSE <<>>)
             \o (IF hasDesc
                 THEN joinByFragment(descFragment, <<",">>) \o <<"DESC">>
                 ELSE <<>>)

\* Model.generateOrderBy({orderBy})
generateOrderBy(db, tableName, orderBy) ==
    LET groups == generateOrderByObject(db, tableName, orderBy, tableName)
    IN  orderByClause(groups.ascFragment, groups.descFragment)

(***************************************************************************)
(* Row reshaper.                                                           *)
(*                                                                         *)
(* A key is a string; formatRow inspects its characters.  KeyChars lists   *)
(* the character sequences of the keys that occur, at the granularity      *)
(* split("__") observes: "_" is one underscore, " " one blank, every other *)
(* element a run of characters holding neither.                            *)
(***************************************************************************)
NameChars ==
    {<<"id">>, <<"title">>, <<"username">>, <<"src">>, <<"nokey">>,
     <<"author", "_", "id">>, <<"ghost", "_", "id">>, <<"avatar", "_", "id">>}

\* the keys of the rows formatRow is tried on by itself: plain keys, aliases
\* (of r and c, r and d, tag_ and c, r and c after a blank) and keys that
\* hold "__" without being the alias of a relation key and a column
RowKeyChars ==
    {<<"a">>, <<"r">>, <<"x">>, <<"tag">>, <<"_", "x">>, <<"x", "_", "_", "y">>,
     <<"_", "_", "r", "_", "_", "c">>, <<"_", "_", "r", "_", "_", "d">>,
     <<"_", "_", "tag", "_", "_", "_", "c">>, <<"_", "_", "r", "_", "_", " ", "c">>,
     <<"_", "_", "x">>, <<"_", "_", "r", "_", "_">>}

KeyChars ==
    NameChars
    \cup {<<"_", "_">> \o r \o <<"_", "_">> \o c : r \in NameChars, c \in NameChars}
    \cup RowKeyChars

RECURSIVE Join(_)
\* the string spelled by a character sequence
Join(chars) == IF chars = <<>> THEN "" ELSE Head(chars) \o Join(Tail(chars))

CharsOf == [k \in {Join(a) : a \in KeyChars} |-> CHOOSE a \in KeyChars : Join(a) = k]
Chars(key) == CharsOf[key]

\* key.startsWith("__")
startsWithDunder(chars) == Len(chars) >= 2 /\ chars[1] = "_" /\ chars[2] = "_"

RECURSIVE splitDunder(_, _)
\* key.split("__"): left to right, non-overlapping; cur is the piece being read
splitDunder(chars, cur) ==
    IF chars = <<>> THEN <<cur>>
    ELSE IF startsWithDunder(chars)
         THEN <<cur>> \o splitDunder(SubSeq(chars, 3, Len(chars)), <<>>)
         ELSE splitDunder(Tail(chars), Append(cur, Head(chars)))

RECURSIVE trim(_)
\* piece.trim()
trim(chars) ==
    IF chars # <<>> /\ Head(chars) = " " THEN trim(Tail(chars))
    ELSE IF chars # <<>> /\ chars[Len(chars)] = " "
         THEN trim(SubSeq(chars, 1, Len(chars) - 1))
         ELSE chars

\* key.split("__").map(trim).filter(nonempty)
aliasPieces(chars) ==
    LET pieces == splitDunder(chars, <<>>)
        trimmed == [i \in 1..Len(pieces) |-> trim(pieces[i])]
    IN  SelectSeq(trimmed, LAMBDA piece : Len(piece) > 0)

\* property assignment row[k] = v: in place when k is there, appended otherwise
SetEntry(es, k, v) ==
    IF HasKey(es, k)
    THEN [i \in 1..Len(es) |-> IF es[i][1] = k THEN <<k, v>> ELSE es[i]]
    ELSE Append(es, <<k, v>>)

\* delete row[k]
DeleteEntry(es, k) == SelectSeq(es, LAMBDA e : e[1] # k)

\* formatKey taking one leading underscore for the alias marker
formatKey_MarkerIsOneUnderscore(row, key) ==
    IF Chars(key)[1] = "_" THEN
        LET cachedValue == Get(row, key)
            deleted == DeleteEntry(row, key)
            pieces == aliasPieces(Chars(key))
            referenceColumnName == IF Len(pieces) >= 1 THEN Join(pieces[1]) ELSE "undefined"
            subKey == IF Len(pieces) >= 2 THEN Join(pieces[2]) ELSE "undefined"
            existing == IF HasKey(deleted, referenceColumnName)
                           /\ Get(deleted, referenceColumnName).kind = "object"
                        THEN Get(deleted, referenceColumnName).entries
                        ELSE <<>>
        IN  SetEntry(deleted, referenceColumnName, Obj(SetEntry(existing, subKey, cachedValue)))
    ELSE row

\* the body of the loop of Model.formatRow for one key
formatKey(row, key) ==
    IF startsWithDunder(Chars(key)) THEN
        LET cachedValue == Get(row, key)
            deleted == DeleteEntry(row, key)
            pieces == aliasPieces(Chars(key))
            \* destructuring: a missing piece is undefined, used as a key
            referenceColumnName == IF Len(pieces) >= 1 THEN Join(pieces[1]) ELSE "undefined"
            subKey == IF Len(pieces) >= 2 THEN Join(pieces[2]) ELSE "undefined"
            \* typeof row[referenceColumnName] === "object" ? row[...] : {}
            existing == IF HasKey(deleted, referenceColumnName)
                           /\ Get(deleted, referenceColumnName).kind = "object"
                        THEN Get(deleted, referenceColumnName).entries
                        ELSE <<>>
        IN  SetEntry(deleted, referenceColumnName, Obj(SetEntry(existing, subKey, cachedValue)))
    ELSE row

RECURSIVE formatKeys(_, _)
formatKeys(row, keys) ==
    IF keys = <<>> THEN row ELSE formatKeys(formatKey(row, Head(keys)), Tail(keys))

\* Model.formatRow(rowSource)
formatRow(rowSource) == formatKeys(rowSource, Keys(rowSource))

(***************************************************************************)
(* Statements of the facade operations.                                    *)
(***************************************************************************)
NoStmt ==
    [select |-> <<>>, includeSelect |-> <<>>, joinFragment |-> <<>>, where |-> <<>>,
     limit |-> <<>>, orderBy |-> <<>>, text |-> <<>>]

Thrown(e) == [err |-> e, stmt |-> NoStmt]

\* the truthiness test of `limit ? ... : ...`
Truthy(v) ==
    CASE v.kind \in {"undefined", "null"} -> FALSE
      [] v.kind = "number" -> v.text # "0"
      [] v.kind = "string" -> v.text # ""
      [] v.kind = "boolean" -> v.text = "true"
      [] OTHER -> TRUE

\* sql(data, Object.keys(data)): the insert/update helper of the executor library
dataFragment(data) == Flatten([i \in 1..Len(data) |-> <<data[i][1], String(data[i][2])>>])

\* the template of Model.findMany, up to the submission
findManyStatement(db, tableName, args) ==
    LET inc == generateInclude(db, tableName, args.include)
        sel == generateSelect(args.select, tableName, "", FALSE,
                              Len(inc.selectFragment) > 0)
        whr == generateWhere(db, args.where, tableName, TRUE)
        lim == IF Truthy(args.limit) THEN <<"LIMIT", String(args.limit)>> ELSE <<>>
        ord == generateOrderBy(db, tableName, args.orderBy)
    IN  IF inc.err # "" THEN Thrown(inc.err)
        ELSE IF whr.err # "" THEN Thrown(whr.err)
        ELSE [err |-> "",
              stmt |-> [select |-> sel,
                        includeSelect |-> inc.selectFragment,
                        joinFragment |-> inc.joinFragment,
                        where |-> whr.frag,
                        limit |-> lim,
                        orderBy |-> ord,
                        text |-> <<"SELECT">> \o sel
                                 \o clearFragmentArray(inc.selectFragment)
                                 \o <<"FROM", tableName>>
                                 \o clearFragmentArray(inc.joinFragment)
                                 \o whr.frag \o lim \o ord]]

\* the template of Model.create
createStatement(db, tableName, args) ==
    LET sel == generateSelect(args.select, tableName, "", TRUE, FALSE)
    IN  [err |-> "",
         stmt |-> [NoStmt EXCEPT !.select = sel,
                                 !.text = <<"INSERT INTO", tableName>>
                                          \o dataFragment(args.data) \o sel]]

\* the template of Model.update
updateStatement(db, tableName, args) ==
    LET whr == generateWhere(db, args.where, tableName, TRUE)
        sel == generateSelect(args.select, tableName, "", TRUE, FALSE)
    IN  IF whr.err # "" THEN Thrown(whr.err)
        ELSE [err |-> "",
              stmt |-> [NoStmt EXCEPT !.select = sel, !.where = whr.frag,
                                      !.text = <<"UPDATE", tableName, "SET">>
                                               \o dataFragment(args.data)
                                               \o whr.frag \o sel]]

\* the template of Model.delete
deleteStatement(db, tableName, args) ==
    LET whr == generateWhere(db, args.where, tableName, TRUE)
    IN  IF whr.err # "" THEN Thrown(whr.err)
        ELSE [err |-> "",
              stmt |-> [NoStmt EXCEPT !.where = whr.frag,
                                      !.text = <<"DELETE FROM", tableName>> \o whr.frag]]

(***************************************************************************)
(* The executor: the rows a submitted statement can come back with.        *)
(***************************************************************************)
IndexOf(seq, x) ==
    IF \E i \in 1..Len(seq) : seq[i] = x
    THEN CHOOSE i \in 1..Len(seq) : seq[i] = x /\ \A j \in 1..(i - 1) : seq[j] # x
    ELSE 0

\* the select list of a statement: after SELECT up to FROM, or after RETURNING
selectList(text) ==
    IF IndexOf(text, "SELECT") > 0
    THEN SubSeq(text, IndexOf(text, "SELECT") + 1, IndexOf(text, "FROM") - 1)
    ELSE IF IndexOf(text, "RETURNING") > 0
    THEN SubSeq(text, IndexOf(text, "RETURNING") + 1, Len(text))
    ELSE <<>>

ColumnNames(db, t) == [i \in 1..Len(db[t]) |-> db[t][i].name]

RECURSIVE resultColumns(_, _)
\* the column names the engine gives the rows of a select list
resultColumns(db, list) ==
    IF list = <<>> THEN <<>>
    ELSE IF Head(list) = "," THEN resultColumns(db, Tail(list))
    ELSE IF Len(list) >= 3 /\ list[2] = "AS"
         THEN <<list[3]>> \o resultColumns(db, SubSeq(list, 4, Len(list)))
    ELSE IF \E t \in DOMAIN db : Head(list) = t \o ".*"
         THEN ColumnNames(db, CHOOSE t \in DOMAIN db : Head(list) = t \o ".*")
              \o resultColumns(db, Tail(list))
    ELSE LET tc == CHOOSE tc \in (DOMAIN db) \X {Join(n) : n \in NameChars} :
                        Head(list) = createIdentifier(tc[2], tc[1])
         IN  <<tc[2]>> \o resultColumns(db, Tail(list))

DigitText(i) ==
    CASE i = 0 -> "0" [] i = 1 -> "1" [] i = 2 -> "2" [] i = 3 -> "3" [] i = 4 -> "4"
      [] i = 5 -> "5" [] i = 6 -> "6" [] i = 7 -> "7" [] i = 8 -> "8" [] OTHER -> "9"

RECURSIVE rowOf(_, _)
\* a row object over the columns; a repeated column name is one property
rowOf(columns, v) ==
    IF columns = <<>> THEN <<>>
    ELSE SetEntry(rowOf(SubSeq(columns, 1, Len(columns) - 1), v), columns[Len(columns)], v)

\* the tables a statement joins
joinedTables(text) == {text[i + 1] : i \in {j \in 1..(Len(text) - 1) : text[j] = "JOIN"}}

\* the most rows a statement can return
rowBound(text) ==
    IF selectList(text) = <<>> THEN 0
    ELSE IF IndexOf(text, "LIMIT") > 0
    THEN CHOOSE n \in 0..9 : DigitText(n) = text[IndexOf(text, "LIMIT") + 1]
    ELSE MaxRows

\* the answers of the executor to a statement: n rows, row i holding i
executorRows(db, text, n) ==
    [i \in 1..n |-> rowOf(resultColumns(db, selectList(text)), Num(DigitText(i)))]

(***************************************************************************)
(* The query descriptions callers pass.                                    *)
(***************************************************************************)
\* the objects with n entries, keys distinct, in every key order
Entries(keys, vals, n) ==
    {es \in [1..n -> keys \X vals] :
        \A i \in 1..n : \A j \in 1..n : es[i][1] = es[j][1] => i = j}

EntriesUpTo(keys, vals, n) == UNION {Entries(keys, vals, m) : m \in 0..n}

One(k, v) == <<<<k, v>>>>

Operators == {"eq", "neq", "contains", "startsWith", "endsWith", "gt", "lt", "gte", "lte"}

\* the values of one filter key: absent, null, scalars, operator maps (known,
\* unknown, over null, empty, with two entries)
LeafValues ==
    {Undefined, Null, Num("1"), Str("a")}
    \cup {Obj(One(op, Num("1"))) : op \in Operators \cup {"foo"}}
    \cup {Obj(One("eq", Null)), Obj(One("neq", Null)), Obj(<<>>),
          Obj(<<<<"gte", Num("1")>>, <<"lte", Num("2")>>>>)}

SmallLeafValues == {Undefined, Null, Num("1"), Obj(One("gte", Num("1")))}

\* the values inside a nested filter, one of them a filter nested once more
NestedValues ==
    {Undefined, Null, Num("1"), Obj(One("eq", Num("1"))), Obj(One("foo", Num("1"))),
     Obj(<<>>), Obj(One("src", Num("1"))), Obj(One("src", Obj(One("eq", Num("1")))))}

NestedWheres == EntriesUpTo({"username", "avatar_id"}, NestedValues, MaxKeys)

Wheres ==
    Entries({"id", "title", "nokey", "author_id", "ghost_id"}, LeafValues, 1)
    \cup EntriesUpTo({"id", "title", "nokey"}, SmallLeafValues, MaxKeys)
    \cup {One(fk, Obj(n)) : fk \in {"author_id", "ghost_id"}, n \in NestedWheres}
    \cup {<<<<"id", Num("1")>>, <<"author_id", Obj(n)>>>> : n \in NestedWheres}
    \cup {<<<<"author_id", Obj(n)>>, <<"id", Num("1")>>>> : n \in NestedWheres}

SmallWheres ==
    {<<>>, One("id", Num("1")), One("author_id", Obj(One("username", Str("a"))))}

IncludeValues ==
    {Bool("true"), Bool("false"), Obj(<<>>), Obj(One("id", Bool("true"))),
     Obj(<<<<"id", Bool("true")>>, <<"username", Bool("true")>>>>)}

Includes ==
    Entries({"nokey"}, IncludeValues, 1)
    \cup EntriesUpTo({"author_id", "ghost_id", "title"}, IncludeValues, MaxKeys)

SmallIncludes ==
    {<<>>, One("author_id", Bool("true")), One("author_id", Obj(One("id", Bool("true"))))}

Selects == {<<>>, <<"id">>, <<"id", "title">>}

Orders == {Str("ASC"), Str("DESC")}

NestedOrders ==
    (EntriesUpTo({"username", "avatar_id"}, Orders, MaxKeys) \ {<<>>})
    \cup {One("avatar_id", Obj(One("src", Str("ASC")))),
          One("author_id", Obj(One("username", Str("DESC"))))}

OrderBys ==
    Entries({"id", "title", "author_id"}, Orders \cup {Obj(n) : n \in NestedOrders}, 1)
    \cup EntriesUpTo({"id", "title", "author_id"},
                     Orders \cup {Obj(One("username", Str("ASC")))}, MaxKeys)
    \cup {One("ghost_id", Obj(One("id", Str("ASC"))))}

SmallOrderBys ==
    {<<>>, One("id", Str("ASC")), One("author_id", Obj(One("username", Str("DESC"))))}

Limits == {Undefined, Num("0"), Num("1"), Num("2")}

Datas == {One("title", Str("a")), <<<<"title", Str("a")>>, <<"author_id", Num("1")>>>>}

Args(t, sel, whr, inc, ord, lim, dat) ==
    [table |-> t, select |-> sel, where |-> whr, include |-> inc, orderBy |-> ord,
     limit |-> lim, data |-> dat]

NoArgs == Args("", <<>>, <<>>, <<>>, <<>>, Undefined, <<>>)

\* find: select, where, include
FindArgs ==
    {Args("post_", <<>>, w, <<>>, <<>>, Undefined, <<>>) : w \in Wheres}
    \cup {Args("post_", s, <<>>, i, <<>>, Undefined, <<>>) : s \in Selects, i \in Includes}
    \cup {Args("post_", <<>>, w, i, <<>>, Undefined, <<>>) :
            w \in SmallWheres, i \in SmallIncludes}
    \cup {Args("user_", <<>>, One("id", Num("1")), One("avatar_id", i), <<>>, Undefined, <<>>) :
            i \in IncludeValues}

\* findMany: select, where, include, limit, orderBy
FindManyArgs ==
    FindArgs
    \cup {Args("post_", <<>>, <<>>, <<>>, o, Undefined, <<>>) : o \in OrderBys}
    \cup {Args("post_", s, w, i, o, l, <<>>) :
            s \in {<<>>, <<"id">>}, w \in SmallWheres, i \in SmallIncludes,
            o \in SmallOrderBys, l \in Limits}
    \cup {Args("user_", <<>>, <<>>, One("avatar_id", Bool("true")), o, Num("1"), <<>>) :
            o \in {One("username", Str("ASC")), One("avatar_id", Obj(One("src", Str("DESC"))))}}

\* create: select, data
CreateArgs == {Args("post_", s, <<>>, <<>>, <<>>, Undefined, d) : s \in Selects, d \in Datas}

\* update: select, data, where
UpdateArgs ==
    {Args("post_", s, w, <<>>, <<>>, Undefined, d) :
        s \in Selects, d \in Datas,
        w \in SmallWheres \cup Entries({"id", "author_id"}, LeafValues, 1)}

\* delete: where
DeleteArgs ==
    {Args("post_", <<>>, w, <<>>, <<>>, Undefined, <<>>) :
        w \in SmallWheres \cup Entries({"id", "author_id"}, LeafValues, 1)}

(***************************************************************************)
(* The facade as a state machine: a call compiles its statement and        *)
(* submits it (its one suspend point), then the executor answers.          *)
(***************************************************************************)
NoResult == [kind |-> "none", rows |-> <<>>, err |-> ""]
Rows(rs) == [kind |-> "rows", rows |-> rs, err |-> ""]
Row(r) == [kind |-> "row", rows |-> <<r>>, err |-> ""]
NullResult == [kind |-> "null", rows |-> <<>>, err |-> ""]
Raw(rs) == [kind |-> "raw", rows |-> rs, err |-> ""]
Error(e) == [kind |-> "error", rows |-> <<>>, err |-> e]

NoCall == [op |-> "none", args |-> NoArgs]

Init ==
    /\ database = Schema
    /\ pc = [c \in Callers |-> IF c = 1 THEN "idle" ELSE "off"]
    /\ call = [c \in Callers |-> NoCall]
    /\ stmt = [c \in Callers |-> NoStmt]
    /\ submitted = [c \in Callers |-> <<>>]
    /\ answered = [c \in Callers |-> <<>>]
    /\ result = [c \in Callers |-> NoResult]

\* Invoke keeping the compiled fragments in a place all calls share
Invoke_SharedFragments(c, op, args, compiled) ==
    /\ call' = [call EXCEPT ![c] = [op |-> op, args |-> args]]
    /\ IF compiled.err # ""
       THEN /\ pc' = [pc EXCEPT ![c] = "threw"]
            /\ result' = [result EXCEPT ![c] = Error(compiled.err)]
            /\ UNCHANGED <<stmt, submitted>>
       ELSE /\ pc' = [pc EXCEPT ![c] = "awaiting"]
            /\ stmt' = [d \in Callers |-> IF pc[d] = "off" THEN stmt[d] ELSE compiled.stmt]
            /\ submitted' = [submitted EXCEPT ![c] = Append(@, compiled.stmt.text)]
            /\ UNCHANGED result
    /\ UNCHANGED <<database, answered>>

\* the synchronous part of a call: compile, then submit or throw
Invoke(c, op, args, compiled) ==
    /\ call' = [call EXCEPT ![c] = [op |-> op, args |-> args]]
    /\ IF compiled.err # ""
       THEN /\ pc' = [pc EXCEPT ![c] = "threw"]
            /\ result' = [result EXCEPT ![c] = Error(compiled.err)]
            /\ UNCHANGED <<stmt, submitted>>
       ELSE /\ pc' = [pc EXCEPT ![c] = "awaiting"]
            /\ stmt' = [stmt EXCEPT ![c] = compiled.stmt]
            /\ submitted' = [submitted EXCEPT ![c] = Append(@, compiled.stmt.text)]
            /\ UNCHANGED result
    /\ UNCHANGED <<database, answered>>

\* Model.find passing its arguments on without the limit
Find_WithoutLimit(c) ==
    \E a \in FindArgs :
        /\ pc[c] = "idle"
        /\ Invoke(c, "find", a, findManyStatement(database, a.table, a))

\* Model.find: findMany({...args, limit: 1})
Find(c) ==
    \E a \in FindArgs :
        /\ pc[c] = "idle"
        /\ Invoke(c, "find", a,
                  findManyStatement(database, a.table, [a EXCEPT !.limit = Num("1")]))

\* Model.findMany
FindMany(c) ==
    \E a \in FindManyArgs :
        /\ pc[c] = "idle"
        /\ Invoke(c, "findMany", a, findManyStatement(database, a.table, a))

\* Model.create
Create(c) ==
    \E a \in CreateArgs :
        /\ pc[c] = "idle"
        /\ Invoke(c, "create", a, createStatement(database, a.table, a))

\* Model.update
Update(c) ==
    \E a \in UpdateArgs :
        /\ pc[c] = "idle"
        /\ Invoke(c, "update", a, updateStatement(database, a.table, a))

\* Model.delete
Delete(c) ==
    \E a \in DeleteArgs :
        /\ pc[c] = "idle"
        /\ Invoke(c, "delete", a, deleteStatement(database, a.table, a))

\* Returned with the row count of create/update asserted to be at least one
Returned_AssertsAtLeastOneRow(op, rows) ==
    CASE op = "findMany" -> Rows([i \in 1..Len(rows) |-> formatRow(rows[i])])
      [] op = "find" ->
            IF Len(rows) = 1 THEN Row(formatRow(rows[1])) ELSE NullResult
      [] op \in {"create", "update"} ->
            IF Len(rows) >= 1 THEN Row(rows[1]) ELSE Error("UnexpectedRowCount")
      [] OTHER -> Raw(rows)

\* what the call makes of the rows the executor returned
Returned(op, rows) ==
    CASE op = "findMany" -> Rows([i \in 1..Len(rows) |-> formatRow(rows[i])])
      [] op = "find" ->
            IF Len(rows) = 1 THEN Row(formatRow(rows[1])) ELSE NullResult
      [] op \in {"create", "update"} ->
            IF Len(rows) = 1 THEN Row(rows[1]) ELSE Error("UnexpectedRowCount")
      [] OTHER -> Raw(rows)

\* what the executor answers a submission with: rows, or a failure
Resolved(rs) == [ok |-> TRUE, rows |-> rs, err |-> ""]
Rejected(e) == [ok |-> FALSE, rows |-> <<>>, err |-> e]

\* the errors a submission can be rejected with
ExecutorErrors == {"ExecutorFailure", "ConnectionLost"}

\* the awaited submission resolves with rows
ExecutorReturn(c) ==
    /\ pc[c] = "awaiting"
    /\ joinedTables(stmt[c].text) \subseteq DOMAIN database
    /\ \E n \in 0..MaxRows :
        /\ n <= rowBound(stmt[c].text)
        /\ LET rows == executorRows(database, stmt[c].text, n)
               answer == Returned(call[c].op, rows)
           IN  /\ answered' = [answered EXCEPT ![c] = Append(@, Resolved(rows))]
               /\ result' = [result EXCEPT ![c] = answer]
               /\ pc' = [pc EXCEPT ![c] = IF answer.kind = "error" THEN "threw" ELSE "returned"]
    /\ UNCHANGED <<database, call, stmt, submitted>>

\* ExecutorFail with the statement submitted once more after a rejection
ExecutorFail_Retries(c) ==
    /\ pc[c] = "awaiting"
    /\ \E e \in ExecutorErrors :
        /\ answered' = [answered EXCEPT ![c] = Append(@, Rejected(e))]
        /\ IF Len(submitted[c]) < 2
           THEN /\ submitted' = [submitted EXCEPT ![c] = Append(@, stmt[c].text)]
                /\ UNCHANGED <<pc, result>>
           ELSE /\ result' = [result EXCEPT ![c] = Error(e)]
                /\ pc' = [pc EXCEPT ![c] = "threw"]
                /\ UNCHANGED submitted
    /\ UNCHANGED <<database, call, stmt>>

\* the awaited submission rejects: the rejection propagates out of the call
ExecutorFail(c) ==
    /\ pc[c] = "awaiting"
    /\ \E e \in ExecutorErrors :
        /\ answered' = [answered EXCEPT ![c] = Append(@, Rejected(e))]
        /\ result' = [result EXCEPT ![c] = Error(e)]
    /\ pc' = [pc EXCEPT ![c] = "threw"]
    /\ UNCHANGED <<database, call, stmt, submitted>>

Next ==
    \E c \in Callers :
        \/ Find(c)
        \/ FindMany(c)
        \/ Create(c)
        \/ Update(c)
        \/ Delete(c)
        \/ ExecutorReturn(c)
        \/ ExecutorFail(c)

Spec == Init /\ [][Next]_vars

(***************************************************************************)
(* Concurrent callers: every caller is live, and the calls interleave at   *)
(* the await of their submissions.  The calls are a few of each operation. *)
(***************************************************************************)
ConcurrentCalls ==
    {[op |-> "findMany",
      args |-> Args("post_", <<"id">>, One("author_id", Obj(One("username", Str("a")))),
                    One("author_id", Obj(One("id", Bool("true")))),
                    One("id", Str("DESC")), Undefined, <<>>)],
     [op |-> "findMany",
      args |-> Args("post_", <<>>, <<>>, One("title", Bool("true")), <<>>, Undefined, <<>>)],
     [op |-> "find",
      args |-> Args("user_", <<>>, One("id", Num("1")),
                    One("avatar_id", Obj(One("src", Bool("true")))), <<>>, Undefined, <<>>)],
     [op |-> "create",
      args |-> Args("post_", <<"id">>, <<>>, <<>>, <<>>, Undefined, One("title", Str("a")))],
     [op |-> "update",
      args |-> Args("post_", <<>>, One("id", Num("1")), <<>>, <<>>, Undefined,
                    One("title", Str("a")))],
     [op |-> "delete",
      args |-> Args("post_", <<>>, One("id", Num("1")), <<>>, <<>>, Undefined, <<>>)]}

\* the statement an operation compiles for its arguments
compiledStatement(db, op, args) ==
    CASE op = "find" -> findManyStatement(db, args.table, [args EXCEPT !.limit = Num("1")])
      [] op = "findMany" -> findManyStatement(db, args.table, args)
      [] op = "create" -> createStatement(db, args.table, args)
      [] op = "update" -> updateStatement(db, args.table, args)
      [] OTHER -> deleteStatement(db, args.table, args)

ConcurrentInit ==
    /\ database = Schema
    /\ pc = [c \in Callers |-> "idle"]
    /\ call = [c \in Callers |-> NoCall]
    /\ stmt = [c \in Callers |-> NoStmt]
    /\ submitted = [c \in Callers |-> <<>>]
    /\ answered = [c \in Callers |-> <<>>]
    /\ result = [c \in Callers |-> NoResult]

\* a caller invokes one of the operations
Call(c) ==
    \E cl \in ConcurrentCalls :
        /\ pc[c] = "idle"
        /\ Invoke(c, cl.op, cl.args, compiledStatement(database, cl.op, cl.args))

ConcurrentNext ==
    \E c \in Callers :
        \/ Call(c)
        \/ ExecutorReturn(c)
        \/ ExecutorFail(c)

ConcurrentSpec == ConcurrentInit /\ [][ConcurrentNext]_vars

(***************************************************************************)
(* formatRow by itself: a flat row is drawn, then formatRow is applied to  *)
(* it and again to its own output; result[c].rows holds the source row     *)
(* followed by the output of every pass.                                   *)
(***************************************************************************)
MaxRowKeys == 2
MaxPasses == 2

RowKeys == {Join(k) : k \in RowKeyChars}

\* the values of a flat row; an object is what a column of a json type holds
RowValues == {Num("1"), Num("2"), Obj(One("d", Num("3")))}

\* the flat rows: up to MaxRowKeys keys in every order, and two rows where
\* two aliases of one relation key meet the key itself
RowSources ==
    EntriesUpTo(RowKeys, RowValues, MaxRowKeys)
    \cup {<<<<"r", v>>, <<"__r__c", Num("1")>>, <<"__r__d", Num("2")>>>> : v \in RowValues}
    \cup {<<<<"__r__c", Num("1")>>, <<"a", v>>, <<"__r__d", Num("2")>>>> : v \in RowValues}

RowInit ==
    /\ database = Schema
    /\ pc = [c \in Callers |-> IF c = 1 THEN "reshaping" ELSE "off"]
    /\ call = [c \in Callers |-> NoCall]
    /\ stmt = [c \in Callers |-> NoStmt]
    /\ submitted = [c \in Callers |-> <<>>]
    /\ answered = [c \in Callers |-> <<>>]
    /\ \E rowSource \in RowSources :
            result = [c \in Callers |-> IF c = 1 THEN Rows(<<rowSource>>) ELSE NoResult]

\* one pass of Model.formatRow over the row of the last pass
FormatRow(c) ==
    /\ pc[c] = "reshaping"
    /\ Len(result[c].rows) <= MaxPasses
    /\ result' = [result EXCEPT
                    ![c] = Rows(Append(@.rows, formatRow(@.rows[Len(@.rows)])))]
    /\ UNCHANGED <<database, pc, call, stmt, submitted, answered>>

RowNext == \E c \in Callers : FormatRow(c)

RowSpec == RowInit /\ [][RowNext]_vars

(***************************************************************************)
(* Vocabulary of the properties.                                           *)
(***************************************************************************)
Called(c) == pc[c] \notin {"idle", "off"}
Submitted(c) == submitted[c] # <<>>
WhereOf(c) == call[c].args.where
TableOf(c) == call[c].args.table

\* every table name a reference or a registry can mention
TableNames == DOMAIN Schema \cup {"ghost_"}

\* every name that occurs as a key of a description
KeyNames == {Join(n) : n \in NameChars} \cup Operators \cup {"foo"}

\* the reference of a column as the registry records it, NoReference when
\* the table or the column is missing
ReferenceOf(db, t, k) ==
    IF t \in DOMAIN db /\ \E i \in 1..Len(db[t]) : db[t][i].name = k
    THEN db[t][CHOOSE i \in 1..Len(db[t]) : db[t][i].name = k].reference
    ELSE NoReference

IsRelationship(db, t, k) == ReferenceOf(db, t, k) # NoReference

Count(seq, x) == Cardinality({i \in 1..Len(seq) : seq[i] = x})

\* the tokens of a fragment that are identifiers qualified by one of the tables
Qualified(frag, tables) ==
    SelectSeq(frag, LAMBDA tok :
        \E t \in tables : \E k \in KeyNames : tok = t \o "." \o k)

(***************************************************************************)
(* C1.  For every column and numeric value v the predicate compiler        *)
(* compiles {lte: v} to the clause `<table>.<column> <= v`, which differs  *)
(* from the clause of {gte: v}.                                            *)
(***************************************************************************)
C1_LteEmitsLessOrEqual ==
    \A c \in Callers :
        \A k \in {"id", "title"} :
            (Submitted(c) /\ Len(WhereOf(c)) = 1 /\ WhereOf(c)[1][1] = k
             /\ WhereOf(c)[1][2].kind = "object" /\ WhereOf(c)[1][2].entries # <<>>
             /\ WhereOf(c)[1][2].entries[1][1] = "lte")
            => LET v == WhereOf(c)[1][2].entries[1][2]
               IN  /\ stmt[c].where = <<"WHERE", TableOf(c) \o "." \o k, "<=", v.text>>
                   /\ stmt[c].where #
                        generateWhere(database, One(k, Obj(One("gte", v))),
                                      TableOf(c), TRUE).frag

(***************************************************************************)
(* C2.  For a filter with only scalar, null and operator leaves the        *)
(* compiled predicate has exactly one clause per key whose value is not    *)
(* undefined, in key order, joined by AND; an undefined value contributes  *)
(* no clause and no separator.                                             *)
(***************************************************************************)
\* a filter over columns that are no relationships, none of its leaves an
\* empty operator map
IsFlatFilter(db, t, where) ==
    \A i \in 1..Len(where) :
        /\ ~IsRelationship(db, t, where[i][1])
        /\ where[i][2].kind = "object" => where[i][2].entries # <<>>

PresentKeys(where) ==
    LET present == SelectSeq(where, LAMBDA e : e[2].kind # "undefined")
    IN  [i \in 1..Len(present) |-> present[i][1]]

C2_OneClausePerPresentKey ==
    \A c \in Callers :
        (Submitted(c) /\ IsFlatFilter(database, TableOf(c), WhereOf(c)))
        => LET present == PresentKeys(WhereOf(c))
           IN  /\ Qualified(stmt[c].where, {TableOf(c)})
                    = [i \in 1..Len(present) |-> TableOf(c) \o "." \o present[i]]
               /\ Count(stmt[c].where, "AND")
                    = (IF Len(present) = 0 THEN 0 ELSE Len(present) - 1)
               /\ Count(stmt[c].where, "WHERE") = (IF Len(present) = 0 THEN 0 ELSE 1)

(***************************************************************************)
(* C3.  For a filter that contains relationship keys with nested filters   *)
(* the predicate of the outermost generateWhere call holds exactly one     *)
(* WHERE token, whatever the nesting depth and the nested filters.         *)
(***************************************************************************)
HasNestedFilter(db, t, where) ==
    \E i \in 1..Len(where) :
        IsRelationship(db, t, where[i][1]) /\ where[i][2].kind = "object"

C3_ExactlyOneWhere ==
    \A c \in Callers :
        (Submitted(c) /\ HasNestedFilter(database, TableOf(c), WhereOf(c)))
        => /\ Count(stmt[c].where, "WHERE") = 1
           /\ Count(stmt[c].text, "WHERE") = 1
           /\ stmt[c].where[1] = "WHERE"

\* a filter nested two levels deep was compiled and submitted
C3_Witness ==
    \E c \in Callers :
        /\ Submitted(c)
        /\ WhereOf(c) = <<<<"id", Num("1")>>,
                          <<"author_id",
                            Obj(<<<<"username", Num("1")>>,
                                  <<"avatar_id", Obj(One("src", Num("1")))>>>>)>>>>
        /\ Count(stmt[c].where, "WHERE") = 1
        /\ Count(stmt[c].where, "AND") = 2

(***************************************************************************)
(* C4.  For every column k and non-null scalar v the shorthand filter      *)
(* {k: v} compiles to the same clause as {k: {eq: v}}, namely              *)
(* `<table>.<k> = '<v>'` with the value quoted.                            *)
(***************************************************************************)
C4_ShorthandIsQuotedEquality ==
    \A c \in Callers :
        (Submitted(c) /\ Len(WhereOf(c)) = 1
         /\ WhereOf(c)[1][2].kind \in {"number", "string"})
        => LET k == WhereOf(c)[1][1]
               v == WhereOf(c)[1][2]
           IN  /\ stmt[c].where
                    = <<"WHERE", TableOf(c) \o "." \o k, "=", "'" \o v.text \o "'">>
               /\ stmt[c].where
                    = generateWhere(database, One(k, Obj(One("eq", v))),
                                    TableOf(c), TRUE).frag

(***************************************************************************)
(* C5.  The predicate compiler recurses exactly one level below the root:  *)
(* no key of a nested filter is resolved as a relationship and recursed    *)
(* into, so every identifier of the predicate is qualified by the owning   *)
(* table or by a table a top-level relationship key references.            *)
(***************************************************************************)
OneLevelTables(db, t, where) ==
    {t} \cup {ReferenceOf(db, t, where[i][1]).tableName :
                i \in {j \in 1..Len(where) :
                        IsRelationship(db, t, where[j][1])
                        /\ where[j][2].kind = "object"}}

C5_RecursesOneLevelOnly ==
    \A c \in Callers :
        Submitted(c)
        => Qualified(stmt[c].where,
                     TableNames \ OneLevelTables(database, TableOf(c), WhereOf(c))) = <<>>

(***************************************************************************)
(* C6.  A filter key that is no relationship of the owning table, with an  *)
(* object value whose first entry is no known operator, makes the          *)
(* predicate compiler raise an error; no clause is emitted for it.         *)
(***************************************************************************)
HasMalformedOperatorMap(db, t, where) ==
    \E i \in 1..Len(where) :
        /\ ~IsRelationship(db, t, where[i][1])
        /\ where[i][2].kind = "object"
        /\ where[i][2].entries # <<>>
        /\ where[i][2].entries[1][1] \notin Operators

C6_MalformedOperatorMapRaises ==
    \A c \in Callers :
        (Called(c) /\ HasMalformedOperatorMap(database, TableOf(c), WhereOf(c)))
        => /\ ~Submitted(c)
           /\ pc[c] = "threw"
           /\ result[c].kind = "error"

(***************************************************************************)
(* C7.  When the include description of find/findMany holds a key that is  *)
(* no foreign-key column of the owning table (column missing, or column    *)
(* without a reference), the call fails with an error surfaced to the      *)
(* caller and submits no statement.                                        *)
(***************************************************************************)
IncludeOf(c) == call[c].args.include

HasBadIncludeKey(db, t, include) ==
    \E i \in 1..Len(include) : ~IsRelationship(db, t, include[i][1])

C7_BadIncludeKeyFails ==
    \A c \in Callers :
        (Called(c) /\ call[c].op \in {"find", "findMany"}
         /\ HasBadIncludeKey(database, TableOf(c), IncludeOf(c)))
        => /\ pc[c] = "threw"
           /\ result[c].kind = "error"
           /\ result[c].err \in {"UnknownColumn", "NotAReference"}
           /\ submitted[c] = <<>>
           /\ stmt[c] = NoStmt

\* a call whose second include key is a column without a reference threw
C7_Witness ==
    \E c \in Callers :
        /\ call[c].op = "findMany"
        /\ IncludeOf(c) = <<<<"author_id", Bool("true")>>, <<"title", Bool("true")>>>>
        /\ pc[c] = "threw"
        /\ result[c].err = "NotAReference"
        /\ submitted[c] = <<>>

(***************************************************************************)
(* C8.  For an include description whose keys are all foreign-key columns  *)
(* generateInclude returns one join fragment per key, in key order, of the *)
(* form JOIN <referencedTable> ON <owner>.<key> =                          *)
(* <referencedTable>.<referencedColumn>, and one extra select fragment per *)
(* key whose value is not a boolean; both lists are empty for an empty     *)
(* description.  (As stated: one select fragment per key whose value is    *)
(* not `true`.)                                                            *)
(***************************************************************************)
ExpectedJoin(db, t, k) ==
    LET r == ReferenceOf(db, t, k)
    IN  <<"JOIN", r.tableName, "ON", t \o "." \o k, "=",
          r.tableName \o "." \o r.columnName>>

IncludeCompiled(c) ==
    /\ Submitted(c) /\ call[c].op \in {"find", "findMany"}
    /\ ~HasBadIncludeKey(database, TableOf(c), IncludeOf(c))

JoinsAsExpected(c) ==
    /\ Len(stmt[c].joinFragment) = Len(IncludeOf(c))
    /\ \A i \in 1..Len(IncludeOf(c)) :
            stmt[c].joinFragment[i]
                = ExpectedJoin(database, TableOf(c), IncludeOf(c)[i][1])

\* the claim as stated
C8_SelectPerKeyNotTrue ==
    \A c \in Callers :
        IncludeCompiled(c)
        => /\ JoinsAsExpected(c)
           /\ Len(stmt[c].includeSelect)
                = Len(SelectSeq(IncludeOf(c), LAMBDA e : e[2] # Bool("true")))

\* the claim as amended
C8_SelectPerKeyNotBoolean ==
    \A c \in Callers :
        IncludeCompiled(c)
        => /\ JoinsAsExpected(c)
           /\ Len(stmt[c].includeSelect)
                = Len(SelectSeq(IncludeOf(c), LAMBDA e : e[2].kind # "boolean"))
           /\ IncludeOf(c) = <<>>
                => stmt[c].joinFragment = <<>> /\ stmt[c].includeSelect = <<>>

\* two relationships were joined, one of them with a column sub-mapping
C8_Witness ==
    \E c \in Callers :
        /\ IncludeCompiled(c)
        /\ IncludeOf(c) = <<<<"ghost_id", Bool("false")>>,
                            <<"author_id", Obj(One("id", Bool("true")))>>>>
        /\ stmt[c].joinFragment
            = << <<"JOIN", "ghost_", "ON", "post_.ghost_id", "=", "ghost_.id">>,
                 <<"JOIN", "user_", "ON", "post_.author_id", "=", "user_.id">> >>
        /\ stmt[c].includeSelect = << <<"user_.id", "AS", "__author_id__id">> >>

(***************************************************************************)
(* C9.  Every row returned by findMany carries one nested object under     *)
(* each relationship key requested in the include description: for a       *)
(* column sub-mapping the object holds those columns, for `true` all       *)
(* columns of the referenced table.                                        *)
(***************************************************************************)
SameElements(s, t) == Range(s) = Range(t)

NestedAsRequested(db, t, row, k, v) ==
    /\ HasKey(row, k)
    /\ Get(row, k).kind = "object"
    /\ IF v = Bool("true")
       THEN SameElements(Keys(Get(row, k).entries),
                         ColumnNames(db, ReferenceOf(db, t, k).tableName))
       ELSE SameElements(Keys(Get(row, k).entries), Keys(v.entries))

C9_RowsCarryNestedObjects ==
    \A c \in Callers :
        (call[c].op = "findMany" /\ pc[c] = "returned"
         /\ ~HasBadIncludeKey(database, TableOf(c), IncludeOf(c)))
        => \A r \in 1..Len(result[c].rows) :
            \A i \in 1..Len(IncludeOf(c)) :
                (IncludeOf(c)[i][2] = Bool("true")
                 \/ (IncludeOf(c)[i][2].kind = "object" /\ IncludeOf(c)[i][2].entries # <<>>))
                => NestedAsRequested(database, TableOf(c), result[c].rows[r],
                                     IncludeOf(c)[i][1], IncludeOf(c)[i][2])

(***************************************************************************)
(* C10.  generateOrderBy emits nothing when no key is ASC or DESC,         *)
(* ORDER BY <asc-list> ASC when only ascending entries exist,              *)
(* ORDER BY <desc-list> DESC when only descending entries exist, and       *)
(* ORDER BY <asc-list> ASC, <desc-list> DESC when both exist; the entries  *)
(* of a group are comma-separated in key order.                            *)
(***************************************************************************)
OrderByOf(c) == call[c].args.orderBy

RECURSIVE CommaList(_)
CommaList(ids) ==
    IF Len(ids) = 0 THEN <<>>
    ELSE IF Len(ids) = 1 THEN <<ids[1]>>
    ELSE <<ids[1], ",">> \o CommaList(Tail(ids))

ExpectedOrderBy(asc, desc) ==
    CASE asc = <<>> /\ desc = <<>> -> <<>>
      [] asc # <<>> /\ desc = <<>> -> <<"ORDER BY">> \o CommaList(asc) \o <<"ASC">>
      [] asc = <<>> /\ desc # <<>> -> <<"ORDER BY">> \o CommaList(desc) \o <<"DESC">>
      [] OTHER -> <<"ORDER BY">> \o CommaList(asc) \o <<"ASC", ",">>
                  \o CommaList(desc) \o <<"DESC">>

\* an order description nested at most one level: the values under a key
\* are ASC, DESC, or an object of ASC/DESC values
IsOneLevelOrder(orderBy) ==
    \A i \in 1..Len(orderBy) :
        \/ orderBy[i][2] \in Orders
        \/ /\ orderBy[i][2].kind = "object"
           /\ \A j \in 1..Len(orderBy[i][2].entries) : orderBy[i][2].entries[j][2] \in Orders

\* the identifiers of one direction, in key order, the keys of a nested
\* description qualified by the referenced table
ExpectedGroup(db, t, orderBy, direction) ==
    Flatten([i \in 1..Len(orderBy) |->
        IF orderBy[i][2] = Str(direction) THEN <<t \o "." \o orderBy[i][1]>>
        ELSE IF orderBy[i][2].kind = "object" /\ IsRelationship(db, t, orderBy[i][1])
        THEN LET rt == ReferenceOf(db, t, orderBy[i][1]).tableName
                 nested == SelectSeq(orderBy[i][2].entries,
                                     LAMBDA e : e[2] = Str(direction))
             IN  [j \in 1..Len(nested) |-> rt \o "." \o nested[j][1]]
        ELSE <<>>])

\* the groups generateOrderByObject collects, as identifier lists
CollectedGroups(c) ==
    LET groups == generateOrderByObject(database, TableOf(c), OrderByOf(c), TableOf(c))
    IN  [asc |-> Flatten(groups.ascFragment), desc |-> Flatten(groups.descFragment)]

C10_OrderByShape ==
    \A c \in Callers :
        (Submitted(c) /\ call[c].op = "findMany")
        => /\ stmt[c].orderBy
                = ExpectedOrderBy(CollectedGroups(c).asc, CollectedGroups(c).desc)
           /\ IsOneLevelOrder(OrderByOf(c))
                => stmt[c].orderBy
                    = ExpectedOrderBy(
                        ExpectedGroup(database, TableOf(c), OrderByOf(c), "ASC"),
                        ExpectedGroup(database, TableOf(c), OrderByOf(c), "DESC"))

\* a description with a descending key before two ascending ones was compiled
C10_Witness ==
    \E c \in Callers :
        /\ Submitted(c) /\ call[c].op = "findMany"
        /\ OrderByOf(c) = <<<<"id", Str("DESC")>>,
                            <<"author_id", Obj(One("username", Str("ASC")))>>>>
        /\ stmt[c].orderBy
            = <<"ORDER BY", "user_.username", "ASC", ",", "post_.id", "DESC">>

(***************************************************************************)
(* C11.  The order compiler compiles a nested order description scoped to  *)
(* the referenced table: its keys are qualified with the referenced table, *)
(* and whether a key at any level is a relationship is decided by looking  *)
(* it up in the table the key is scoped to (the root table for top-level   *)
(* keys, the referenced table for nested keys), never in another table.    *)
(***************************************************************************)
RECURSIVE ScopedGroup(_, _, _, _)
\* the identifiers of one direction when every key is looked up in its scope
ScopedGroup(db, orderBy, scope, direction) ==
    Flatten([i \in 1..Len(orderBy) |->
        (IF orderBy[i][2] = Str(direction)
         THEN <<scope \o "." \o orderBy[i][1]>> ELSE <<>>)
        \o (IF IsRelationship(db, scope, orderBy[i][1])
            THEN ScopedGroup(db, ObjectEntries(orderBy[i][2]),
                             ReferenceOf(db, scope, orderBy[i][1]).tableName, direction)
            ELSE <<>>)])

C11_KeysLookedUpInTheirScope ==
    \A c \in Callers :
        (Submitted(c) /\ call[c].op = "findMany")
        => stmt[c].orderBy
            = ExpectedOrderBy(ScopedGroup(database, OrderByOf(c), TableOf(c), "ASC"),
                              ScopedGroup(database, OrderByOf(c), TableOf(c), "DESC"))

(***************************************************************************)
(* C12.  For every relation key r and column name c without `__` and every *)
(* value v, formatRow turns a flat row holding the alias of (r, c), the key *)
(* `__r__c`, with value v into a row where r holds a nested object with    *)
(* c = v and the alias key is gone; {a: 1, __r__c: 2} becomes              *)
(* {a: 1, r: {c: 2}}.                                                      *)
(***************************************************************************)
\* the row formatRow was given and the row of its n-th pass
SourceRow(c) == result[c].rows[1]
Reshaped(c, n) == result[c].rows[n + 1]
Reshaping(c, n) == pc[c] = "reshaping" /\ Len(result[c].rows) > n

\* the alias generateSelect gives column c of relation key r
AliasOf(r, c) == "__" \o r \o "__" \o c

\* pairs of a relation key and a column name, neither of them holding `__`
AliasPairs ==
    {<<"r", "c">>, <<"r", "d">>, <<"tag_", "c">>, <<"tag", "_c">>}

C12_AliasBecomesNestedColumn ==
    \A c \in Callers :
        Reshaping(c, 1)
        => /\ \A p \in AliasPairs :
                HasKey(SourceRow(c), AliasOf(p[1], p[2]))
                => /\ ~HasKey(Reshaped(c, 1), AliasOf(p[1], p[2]))
                   /\ HasKey(Reshaped(c, 1), p[1])
                   /\ Get(Reshaped(c, 1), p[1]).kind = "object"
                   /\ HasKey(Get(Reshaped(c, 1), p[1]).entries, p[2])
                   /\ Get(Get(Reshaped(c, 1), p[1]).entries, p[2])
                        = Get(SourceRow(c), AliasOf(p[1], p[2]))
           /\ SourceRow(c) = <<<<"a", Num("1")>>, <<"__r__c", Num("2")>>>>
                => Reshaped(c, 1) = <<<<"a", Num("1")>>, <<"r", Obj(One("c", Num("2")))>>>>

(***************************************************************************)
(* C13.  Reshaping is idempotent: for every flat row,                      *)
(* formatRow(formatRow(row)) equals formatRow(row); and a row none of      *)
(* whose keys carries the alias marker `__` is returned with the same keys *)
(* and values.                                                             *)
(***************************************************************************)
\* the key starts with the marker of an alias
AliasMarked(key) == Len(Chars(key)) >= 2 /\ SubSeq(Chars(key), 1, 2) = <<"_", "_">>

C13_ReshapingIsIdempotent ==
    \A c \in Callers :
        /\ Reshaping(c, 2) => Reshaped(c, 2) = Reshaped(c, 1)
        /\ (Reshaping(c, 1) /\ \A i \in 1..Len(SourceRow(c)) : ~AliasMarked(SourceRow(c)[i][1]))
            => Reshaped(c, 1) = SourceRow(c)

\* a row with two aliases of one relation key was reshaped twice
C13_Witness ==
    \E c \in Callers :
        /\ Reshaping(c, 2)
        /\ SourceRow(c) = <<<<"r", Obj(One("d", Num("3")))>>, <<"__r__c", Num("1")>>,
                            <<"__r__d", Num("2")>>>>
        /\ Reshaped(c, 1) = <<<<"r", Obj(<<<<"d", Num("2")>>, <<"c", Num("1")>>>>)>>>>
        /\ Reshaped(c, 2) = Reshaped(c, 1)

(***************************************************************************)
(* C14.  formatRow leaves every key that does not have the alias form      *)
(* `__<relationKey>__<column>` in the output row with its original name    *)
(* and value; this includes keys that merely start with `__` without a     *)
(* second `__` delimiter followed by a column name.  (The relation key of  *)
(* an alias of the row is the one key whose value formatRow is to replace: *)
(* it holds the nested object.)                                            *)
(***************************************************************************)
\* the places of the second `__` when the key is read as `__`, a relation
\* key, `__`, a column name, the two names not empty and without `__`
AliasSplits(key) ==
    LET ch == Chars(key)
    IN  {i \in 4..(Len(ch) - 2) :
            /\ SubSeq(ch, 1, 2) = <<"_", "_">>
            /\ SubSeq(ch, i, i + 1) = <<"_", "_">>
            /\ \A j \in 3..(i - 2) : SubSeq(ch, j, j + 1) # <<"_", "_">>
            /\ \A j \in (i + 2)..(Len(ch) - 1) : SubSeq(ch, j, j + 1) # <<"_", "_">>}

HasAliasForm(key) == AliasSplits(key) # {}

\* the relation keys the aliases of a row name
RelationKeysOf(row) ==
    UNION {{Join(SubSeq(Chars(row[n][1]), 3, i - 1)) : i \in AliasSplits(row[n][1])} :
            n \in 1..Len(row)}

C14_OtherKeysPassThrough ==
    \A c \in Callers :
        Reshaping(c, 1)
        => \A i \in 1..Len(SourceRow(c)) :
                (/\ ~HasAliasForm(SourceRow(c)[i][1])
                 /\ SourceRow(c)[i][1] \notin RelationKeysOf(SourceRow(c)))
                => /\ HasKey(Reshaped(c, 1), SourceRow(c)[i][1])
                   /\ Get(Reshaped(c, 1), SourceRow(c)[i][1]) = SourceRow(c)[i][2]

(***************************************************************************)
(* C15.  create and update fail with the error UnexpectedRowCount whenever *)
(* the executor returns 0 rows or 2 or more rows, and return the single    *)
(* returned row when it returns exactly 1.                                 *)
(***************************************************************************)
\* the executor resolved the submission of caller c with rows
Answered(c) == answered[c] # <<>> /\ answered[c][1].ok
AnswerOf(c) == answered[c][1].rows

C15_ExactlyOneRowOrError ==
    \A c \in Callers :
        (call[c].op \in {"create", "update"} /\ Answered(c))
        => IF Len(AnswerOf(c)) = 1
           THEN pc[c] = "returned" /\ result[c] = Row(AnswerOf(c)[1])
           ELSE pc[c] = "threw" /\ result[c] = Error("UnexpectedRowCount")

\* an update was answered with two rows and failed
C15_Witness ==
    \E c \in Callers :
        /\ call[c].op = "update" /\ Answered(c)
        /\ Len(AnswerOf(c)) = 2
        /\ pc[c] = "threw"
        /\ result[c] = Error("UnexpectedRowCount")

(***************************************************************************)
(* C16.  find calls findMany with a row limit of one; when the executor    *)
(* returns no rows it returns the null marker and does not throw, and when *)
(* the executor returns one row it returns that row, reshaped.             *)
(***************************************************************************)
C16_FindLimitsToOneRow ==
    \A c \in Callers :
        (call[c].op = "find" /\ Submitted(c))
        => /\ stmt[c] = findManyStatement(database, TableOf(c),
                                          [call[c].args EXCEPT !.limit = Num("1")]).stmt
           /\ stmt[c].limit = <<"LIMIT", "1">>
           /\ Count(stmt[c].text, "LIMIT") = 1
           /\ Answered(c)
                => /\ Len(AnswerOf(c)) = 0
                        => pc[c] = "returned" /\ result[c] = NullResult
                   /\ Len(AnswerOf(c)) = 1
                        => pc[c] = "returned" /\ result[c] = Row(formatRow(AnswerOf(c)[1]))

\* a find with an include was answered with one row and returned it reshaped
C16_Witness ==
    \E c \in Callers :
        /\ call[c].op = "find" /\ Answered(c)
        /\ IncludeOf(c) = One("author_id", Obj(One("id", Bool("true"))))
        /\ Len(AnswerOf(c)) = 1
        /\ HasKey(AnswerOf(c)[1], "__author_id__id")
        /\ result[c].kind = "row"
        /\ Get(result[c].rows[1], "author_id") = Obj(One("id", Num("1")))

(***************************************************************************)
(* C17.  For any interleaving of concurrent facade calls at their suspend  *)
(* point the registry's tables, columns and references are never modified, *)
(* and every call compiles the same statement and returns the same         *)
(* reshaped rows as when it runs alone against the same executor answers.  *)
(***************************************************************************)
\* what the call of caller c compiles when it runs alone on the registry
CompiledAlone(c) == compiledStatement(Schema, call[c].op, call[c].args)

\* what the call returns or throws when it runs alone and gets this answer
SettledAlone(c, answer) ==
    IF answer.ok THEN Returned(call[c].op, answer.rows) ELSE Error(answer.err)

C17_CallsDoNotInterfere ==
    /\ database = Schema
    /\ \A c \in Callers :
        Called(c)
        => /\ CompiledAlone(c).err # ""
                => /\ result[c] = Error(CompiledAlone(c).err)
                   /\ stmt[c] = NoStmt /\ submitted[c] = <<>> /\ answered[c] = <<>>
           /\ CompiledAlone(c).err = ""
                => /\ stmt[c] = CompiledAlone(c).stmt
                   /\ submitted[c] = <<CompiledAlone(c).stmt.text>>
                   /\ Len(answered[c]) <= 1
                   /\ answered[c] = <<>> => result[c] = NoResult
                   /\ answered[c] # <<>> => result[c] = SettledAlone(c, answered[c][1])

\* two calls are in flight together and the later one was answered first
C17_Witness ==
    \E c \in Callers : \E d \in Callers \ {c} :
        /\ call[c].op = "update" /\ pc[c] = "awaiting"
        /\ call[d].op = "findMany" /\ pc[d] = "returned"
        /\ stmt[c].text # stmt[d].text
        /\ Len(result[d].rows) = 2
        /\ Get(result[d].rows[2], "author_id") = Obj(One("id", Num("2")))

(***************************************************************************)
(* C18.  When the Reference of a foreign-key column names a table that is  *)
(* absent from the registry, resolving that relationship in an include, a  *)
(* nested filter or a nested order fails with a missing-table error; no    *)
(* JOIN and no clause against the absent table is emitted.                 *)
(***************************************************************************)
\* the key is a relationship of table t to a table the registry lacks
DanglingReference(db, t, k) ==
    IsRelationship(db, t, k) /\ ReferenceOf(db, t, k).tableName \notin DOMAIN db

\* the call resolves a relationship to an absent table: as an include key,
\* or as a filter or order key with a nested description
ResolvesDanglingReference(c) ==
    \/ /\ call[c].op \in {"find", "findMany"}
       /\ \E i \in 1..Len(IncludeOf(c)) :
            DanglingReference(database, TableOf(c), IncludeOf(c)[i][1])
    \/ /\ call[c].op \in {"find", "findMany", "update", "delete"}
       /\ \E i \in 1..Len(WhereOf(c)) :
            /\ DanglingReference(database, TableOf(c), WhereOf(c)[i][1])
            /\ WhereOf(c)[i][2].kind = "object"
    \/ /\ call[c].op = "findMany"
       /\ \E i \in 1..Len(OrderByOf(c)) :
            /\ DanglingReference(database, TableOf(c), OrderByOf(c)[i][1])
            /\ OrderByOf(c)[i][2].kind = "object"

C18_DanglingReferenceFails ==
    \A c \in Callers :
        (Called(c) /\ ResolvesDanglingReference(c))
        => /\ pc[c] = "threw"
           /\ result[c].kind = "error"
           /\ submitted[c] = <<>>
           /\ stmt[c] = NoStmt

(***************************************************************************)
(* C19.  Every facade operation submits at most one statement to the       *)
(* executor per call; when that submission fails the same error reaches    *)
(* the caller, no second submission is made, and no row is reshaped or     *)
(* returned.                                                               *)
(***************************************************************************)
\* the executor rejected the submission of caller c
Failed(c) == answered[c] # <<>> /\ ~answered[c][1].ok

C19_OneSubmissionNoRetry ==
    \A c \in Callers :
        /\ Len(submitted[c]) <= 1
        /\ Len(answered[c]) <= Len(submitted[c])
        /\ Failed(c)
            => /\ pc[c] = "threw"
               /\ result[c] = Error(answered[c][1].err)
               /\ result[c].rows = <<>>
               /\ submitted[c] = <<stmt[c].text>>
               /\ answered[c] = <<Rejected(answered[c][1].err)>>

\* the submission of a findMany with an include was rejected
C19_Witness ==
    \E c \in Callers :
        /\ call[c].op = "findMany"
        /\ IncludeOf(c) = One("author_id", Obj(One("id", Bool("true"))))
        /\ Len(submitted[c]) = 1
        /\ answered[c] = <<Rejected("ConnectionLost")>>
        /\ pc[c] = "threw"
        /\ result[c] = Error("ConnectionLost")

(***************************************************************************)
(* C20.  For every call of the select compiler with an empty column list   *)
(* the emitted column list is `<owningTable>.*`, all columns of the owning *)
(* table, and never empty: with the RETURNING prefix (create, update),     *)
(* with the trailing comma (findMany with include selects), with neither,  *)
(* and for the empty column sub-mapping of an include.                     *)
(***************************************************************************)
SelectOf(c) == call[c].args.select

\* the include entries generateInclude asks a column list for
SelectedIncludes(c) == SelectSeq(IncludeOf(c), LAMBDA e : e[2].kind # "boolean")

C20_EmptyListSelectsAllColumns ==
    \A c \in Callers :
        /\ (Submitted(c) /\ call[c].op # "delete" /\ SelectOf(c) = <<>>)
            => /\ stmt[c].select
                    = (IF call[c].op \in {"create", "update"} THEN <<"RETURNING">> ELSE <<>>)
                      \o <<TableOf(c) \o ".*">>
                      \o (IF stmt[c].includeSelect # <<>> THEN <<",">> ELSE <<>>)
               /\ Count(stmt[c].text, TableOf(c) \o ".*") = 1
        /\ (Submitted(c) /\ call[c].op \in {"find", "findMany"})
            => /\ Len(stmt[c].includeSelect) = Len(SelectedIncludes(c))
               /\ \A i \in 1..Len(SelectedIncludes(c)) :
                    SelectedIncludes(c)[i][2].entries = <<>>
                    => stmt[c].includeSelect[i]
                        = <<ReferenceOf(database, TableOf(c),
                                        SelectedIncludes(c)[i][1]).tableName \o ".*">>

\* a findMany without columns, its include without columns either
C20_Witness ==
    \E c \in Callers :
        /\ Submitted(c) /\ call[c].op = "findMany"
        /\ SelectOf(c) = <<>>
        /\ IncludeOf(c) = One("author_id", Obj(<<>>))
        /\ stmt[c].select = <<"post_.*", ",">>
        /\ stmt[c].includeSelect = << <<"user_.*">> >>
        /\ SubSeq(stmt[c].text, 1, 5) = <<"SELECT", "post_.*", ",", "user_.*", "FROM">>

(***************************************************************************)
(* C21.  In every statement findMany composes the clauses appear in the    *)
(* order SELECT list, FROM, JOINs, WHERE, ORDER BY, LIMIT; in particular   *)
(* ORDER BY precedes LIMIT whenever both a limit and a non-empty order     *)
(* description are given.                                                  *)
(***************************************************************************)
LimitOf(c) == call[c].args.limit

\* the clauses of the statement of caller c in the order of the claim
ClausesInOrder(c) ==
    <<"SELECT">> \o stmt[c].select \o Flatten(stmt[c].includeSelect)
    \o <<"FROM", TableOf(c)>> \o Flatten(stmt[c].joinFragment)
    \o stmt[c].where \o stmt[c].orderBy \o stmt[c].limit

C21_ClausesInSqlOrder ==
    \A c \in Callers :
        (Submitted(c) /\ call[c].op = "findMany")
        => /\ stmt[c].text = ClausesInOrder(c)
           /\ (stmt[c].limit # <<>> /\ stmt[c].orderBy # <<>>)
                => IndexOf(stmt[c].text, "ORDER BY") < IndexOf(stmt[c].text, "LIMIT")

(***************************************************************************)
(* C22.  In every statement composed by findMany, update or delete, each   *)
(* table that qualifies an identifier of the WHERE or ORDER BY clause is   *)
(* the operation's own table or a table a JOIN fragment of the same        *)
(* statement introduces: a nested filter or nested order never references  *)
(* a referenced table the statement does not join.                         *)
(***************************************************************************)
\* the tables the statement of caller c may qualify identifiers with
TablesInScope(c) == {TableOf(c)} \cup joinedTables(stmt[c].text)

C22_QualifyingTablesAreInScope ==
    \A c \in Callers :
        (Submitted(c) /\ call[c].op \in {"findMany", "update", "delete"})
        => Qualified(stmt[c].where \o stmt[c].orderBy, TableNames \ TablesInScope(c)) = <<>>

(***************************************************************************)
(* C23.  findMany emits a `LIMIT n` clause for every numeric limit n the   *)
(* caller supplies, n = 0 included, and emits no LIMIT clause exactly when *)
(* the limit argument is absent.                                           *)
(***************************************************************************)
C23_LimitForEveryNumber ==
    \A c \in Callers :
        (Submitted(c) /\ call[c].op = "findMany")
        => /\ LimitOf(c).kind = "number"
                => /\ stmt[c].limit = <<"LIMIT", LimitOf(c).text>>
                   /\ Count(stmt[c].text, "LIMIT") = 1
           /\ LimitOf(c) = Undefined <=> Count(stmt[c].text, "LIMIT") = 0

====
